---------------------------- MODULE Spec2Model ----------------------------
(***************************************************************************)
(* Client-side form scripts of the Zoho Books integration for ERPNext:     *)
(*   zoho_books_settings.js  (Zoho Books Settings: refresh, client_id)     *)
(*   customer.js             (Customer and Item: refresh)                  *)
(*   sales_invoice.js        (Sales Invoice: refresh)                      *)
(*                                                                         *)
(* Every handler of the scripts is an operator that returns the sequence   *)
(* of framework calls the handler makes, in program order (frappe.call,    *)
(* frappe.msgprint, frappe.show_alert, frappe.confirm, window.open,        *)
(* frm.set_value, frm.save, frm.reload_doc, frm.add_custom_button,         *)
(* frm.dashboard.add_indicator).  The actions run one handler each and     *)
(* apply its calls to the state: the open form, its document, its custom   *)
(* buttons and indicators, the open confirm dialog and the remote calls    *)
(* in flight.  The server methods are not part of the scripts: a remote    *)
(* call returns any response, and a reloaded document holds any values.    *)
(***************************************************************************)
EXTENDS Naturals, Sequences, FiniteSets

VARIABLES
    form,        \* doctype of the form on screen ("Desk": none)
    doc,         \* frm.doc of the form on screen
    buttons,     \* labels of the custom buttons of the form on screen
    indicators,  \* dashboard indicators of the form on screen
    confirm,     \* the remote method an open frappe.confirm dialog asks about
    pending,     \* remote calls in flight: method -> number of calls
    last,        \* the handler that ran last, its response and its calls
    offered      \* per token state, the labels Settings.refresh has added

vars == <<form, doc, buttons, indicators, confirm, pending, last, offered>>

----------------------------------------------------------------------------
(* Bounds and value domains *)

MaxPending == 2

Settings == "Zoho Books Settings"
Customer == "Customer"
Item == "Item"
SalesInvoice == "Sales Invoice"
Desk == "Desk"

Forms == {Settings, Customer, Item, SalesInvoice}

ClientIds == {"", "1000.CLIENTA", "1000.CLIENTB"}
RedirectUrls == {"", "http://antpos.local:8000/api/method/zoho_integration.auth.callback"}
Tokens == {"", "token"}
Datetimes == {"2025-01-01 10:00:00"}
ZohoIds == {"", "4600001"}
SyncStatuses == {"", "Synced", "Not Synced", "Failed", "Queued"}
DocStatuses == {0, 1}

AuthorizationUrl == "https://accounts.zoho.com/oauth/v2/auth"
ErrorText == "Zoho API error"

\* Remote methods
get_authorization_url == "zoho_integration.auth.get_authorization_url"
test_connection == "zoho_integration.auth.test_connection"
refresh_access_token == "zoho_integration.auth.refresh_access_token"
revoke_token == "zoho_integration.auth.revoke_token"
sync_customers_from_zoho_to_erpnext == "zoho_integration.customer.sync_customers_from_zoho_to_erpnext"
sync_items_from_zoho_to_erpnext == "zoho_integration.item.sync_items_from_zoho_to_erpnext"
push_customer_to_zoho == "zoho_integration.customer.push_customer_to_zoho"
push_item_to_zoho == "zoho_integration.item.push_item_to_zoho"
send_invoice_to_zoho == "zoho_integration.invoice.send_invoice_to_zoho"

SettingsMethods == {get_authorization_url, test_connection, refresh_access_token,
                    sync_customers_from_zoho_to_erpnext, sync_items_from_zoho_to_erpnext}
SyncMethods == {sync_customers_from_zoho_to_erpnext, sync_items_from_zoho_to_erpnext}
PushMethods == {push_customer_to_zoho, push_item_to_zoho, send_invoice_to_zoho}
Methods == SettingsMethods \cup PushMethods

\* The form whose script issues the method (the frm its callback closes over).
FormOf(m) ==
    CASE m = push_customer_to_zoho -> Customer
      [] m = push_item_to_zoho -> Item
      [] m = send_invoice_to_zoho -> SalesInvoice
      [] OTHER -> Settings

\* Button labels
SetupOAuthLabel == "Setup OAuth"
TestConnectionLabel == "Test Connection"
RefreshTokenLabel == "Refresh Token"
RevokeTokenLabel == "Revoke Token"
GetZohoCustomersLabel == "Get Zoho Customers"
GetZohoItemsLabel == "Get Zoho Items"
PushLabel == "Push to Zoho Books"
ViewLabel == "View in Zoho Books"

\* Messages
MsgRedirectFirst == "Please configure the Redirect URL first"
MsgCompleteOAuth == "Please complete the OAuth authorization in the new window"
MsgConnectionOk == "Connection successful!"
MsgTokenRefreshed == "Access token refreshed successfully!"
MsgCustomersSynced == "Customers synced successfully! Created: {0}, Updated: {1}, Errors: {2}"
MsgItemsSynced == "Items synced successfully! Created: {0}, Updated: {1}, Errors: {2}"
MsgCustomerPushed == "Customer pushed to Zoho Books successfully"
MsgItemPushed == "Item pushed to Zoho Books successfully"
MsgInvoicePushed == "Invoice pushed to Zoho Books successfully"

----------------------------------------------------------------------------
(* Documents *)

BlankDoc ==
    [client_id |-> "", redirect_url |-> "", access_token |-> "", refresh_token |-> "",
     last_sync_date |-> "", is_new |-> FALSE, docstatus |-> 0,
     zoho_contact_id |-> "", zoho_item_id |-> "", zoho_invoice_id |-> "",
     zoho_sync_status |-> ""]

SettingsDocs ==
    {[BlankDoc EXCEPT !.client_id = c, !.redirect_url = u, !.access_token = a,
                      !.refresh_token = r, !.last_sync_date = t] :
        c \in ClientIds, u \in RedirectUrls, a \in Tokens, r \in Tokens,
        t \in {""} \cup Datetimes}

CustomerDocs ==
    {[BlankDoc EXCEPT !.is_new = n, !.zoho_contact_id = z] :
        n \in BOOLEAN, z \in ZohoIds}

ItemDocs ==
    {[BlankDoc EXCEPT !.is_new = n, !.zoho_item_id = z] :
        n \in BOOLEAN, z \in ZohoIds}

SalesInvoiceDocs ==
    {[BlankDoc EXCEPT !.is_new = n, !.docstatus = s, !.zoho_invoice_id = z,
                      !.zoho_sync_status = y] :
        n \in BOOLEAN, s \in DocStatuses, z \in ZohoIds, y \in SyncStatuses}

DocsOf(f) ==
    CASE f = Settings -> SettingsDocs
      [] f = Customer -> CustomerDocs
      [] f = Item -> ItemDocs
      [] f = SalesInvoice -> SalesInvoiceDocs
      [] OTHER -> {BlankDoc}

----------------------------------------------------------------------------
(* Responses of a remote call: r.message absent, or an object with status, *)
(* message and authorization_url.                                          *)

NoResponse == [has |-> FALSE, status |-> "-", message |-> "-", authorization_url |-> "-"]

Responses ==
    {[has |-> FALSE, status |-> "", message |-> "", authorization_url |-> ""]}
    \cup {[has |-> TRUE, status |-> s, message |-> t, authorization_url |-> ""] :
            s \in {"success", "error"}, t \in {"", ErrorText}}
    \cup {[has |-> TRUE, status |-> "", message |-> "", authorization_url |-> AuthorizationUrl]}

\* r.message && r.message.status === "success"
StatusSuccess(r) == r.has /\ r.status = "success"

----------------------------------------------------------------------------
(* Framework calls a handler makes *)

Call(m) == [op |-> "frappe.call", arg |-> m, val |-> ""]
MsgPrint(t) == [op |-> "frappe.msgprint", arg |-> t, val |-> ""]
ShowAlert(t) == [op |-> "frappe.show_alert", arg |-> t, val |-> "green"]
Confirm(m) == [op |-> "frappe.confirm", arg |-> m, val |-> ""]
\* window.open(base + id, "_blank")
WindowOpen(base, id) == [op |-> "window.open", arg |-> base, val |-> id]
SetValue(f, v) == [op |-> "frm.set_value", arg |-> f, val |-> v]
Save == [op |-> "frm.save", arg |-> "", val |-> ""]
ReloadDoc == [op |-> "frm.reload_doc", arg |-> "", val |-> ""]
AddCustomButton(l) == [op |-> "frm.add_custom_button", arg |-> l, val |-> ""]
AddIndicator(t, c) == [op |-> "frm.dashboard.add_indicator", arg |-> t, val |-> c]

Ops(eff, o) == {i \in DOMAIN eff : eff[i].op = o}
Args(eff, o) == {eff[i].arg : i \in Ops(eff, o)}

Labels(eff) == Args(eff, "frm.add_custom_button")
Indicators(eff) == {<<eff[i].arg, eff[i].val>> : i \in Ops(eff, "frm.dashboard.add_indicator")}
Shown(eff) == Args(eff, "frappe.msgprint") \cup Args(eff, "frappe.show_alert")

----------------------------------------------------------------------------
(* zoho_books_settings.js *)

\* Mutant of refresh(frm): the first condition on access_token is lost.
ZohoBooksSettings_refresh_unconditional(d) ==
    <<AddCustomButton(SetupOAuthLabel)>>
    \o
    (IF d.access_token # ""
        THEN <<AddCustomButton(TestConnectionLabel), AddCustomButton(RefreshTokenLabel),
               AddCustomButton(GetZohoCustomersLabel), AddCustomButton(GetZohoItemsLabel)>>
        ELSE <<>>)

\* refresh(frm)
ZohoBooksSettings_refresh(d) ==
    (IF d.access_token = ""
        THEN <<AddCustomButton(SetupOAuthLabel)>>
        ELSE <<>>)
    \o
    (IF d.access_token # ""
        THEN <<AddCustomButton(TestConnectionLabel), AddCustomButton(RefreshTokenLabel),
               AddCustomButton(GetZohoCustomersLabel), AddCustomButton(GetZohoItemsLabel)>>
        ELSE <<>>)

\* Mutant of the "Setup OAuth" click handler: the redirect_url check is lost.
SetupOAuth_click_unchecked(d) ==
    <<Call(get_authorization_url)>>

\* click handler of "Setup OAuth"
SetupOAuth_click(d) ==
    IF d.redirect_url = ""
        THEN <<MsgPrint(MsgRedirectFirst)>>
        ELSE <<Call(get_authorization_url)>>

get_authorization_url_callback(r) ==
    IF r.has /\ r.authorization_url # ""
        THEN <<WindowOpen(r.authorization_url, ""), MsgPrint(MsgCompleteOAuth)>>
        ELSE <<>>

TestConnection_click(d) == <<Call(test_connection)>>

\* Mutant of the test_connection callback: the message is lost.
test_connection_callback_silent(r) ==
    <<>>

test_connection_callback(r) ==
    IF StatusSuccess(r) THEN <<MsgPrint(MsgConnectionOk)>> ELSE <<>>

RefreshToken_click(d) == <<Call(refresh_access_token)>>

refresh_access_token_callback(r) ==
    IF StatusSuccess(r) THEN <<MsgPrint(MsgTokenRefreshed), ReloadDoc>> ELSE <<>>

GetZohoCustomers_click(d) == <<Call(sync_customers_from_zoho_to_erpnext)>>

\* now: frappe.datetime.now_datetime()
sync_customers_callback(r, now) ==
    IF StatusSuccess(r)
        THEN <<MsgPrint(MsgCustomersSynced), SetValue("last_sync_date", now), Save>>
        ELSE <<>>

GetZohoItems_click(d) == <<Call(sync_items_from_zoho_to_erpnext)>>

\* Mutant of the sync_items callback: the status check is lost.
sync_items_callback_unguarded(r, now) ==
    <<MsgPrint(MsgItemsSynced), SetValue("last_sync_date", now), Save>>

sync_items_callback(r, now) ==
    IF StatusSuccess(r)
        THEN <<MsgPrint(MsgItemsSynced), SetValue("last_sync_date", now), Save>>
        ELSE <<>>

\* client_id(frm): the field-change handler, run with the new value in frm.doc
ZohoBooksSettings_client_id(d) ==
    IF d.client_id # "" /\ (d.access_token # "" \/ d.refresh_token # "")
        THEN <<SetValue("access_token", ""), SetValue("refresh_token", "")>>
        ELSE <<>>

----------------------------------------------------------------------------
(* customer.js *)

ContactUrl == "https://books.zoho.com/app#/contacts/"
ItemUrl == "https://books.zoho.com/app#/inventory/items/"

Customer_refresh(d) ==
    IF ~d.is_new
        THEN <<AddCustomButton(PushLabel)>>
             \o (IF d.zoho_contact_id # "" THEN <<AddCustomButton(ViewLabel)>> ELSE <<>>)
        ELSE <<>>

push_customer_callback(r) ==
    IF StatusSuccess(r) THEN <<ShowAlert(MsgCustomerPushed), ReloadDoc>> ELSE <<>>

Item_refresh(d) ==
    IF ~d.is_new
        THEN <<AddCustomButton(PushLabel)>>
             \o (IF d.zoho_item_id # "" THEN <<AddCustomButton(ViewLabel)>> ELSE <<>>)
        ELSE <<>>

push_item_callback(r) ==
    IF StatusSuccess(r) THEN <<ShowAlert(MsgItemPushed), ReloadDoc>> ELSE <<>>

----------------------------------------------------------------------------
(* sales_invoice.js *)

InvoiceUrl == "https://books.zoho.com/app#/invoices/"

color_map(status) ==
    CASE status = "Synced" -> "green"
      [] status = "Not Synced" -> "orange"
      [] status = "Failed" -> "red"
      [] OTHER -> "grey"

SalesInvoice_refresh(d) ==
    (IF ~d.is_new /\ d.docstatus = 1
        THEN <<AddCustomButton(PushLabel)>>
             \o (IF d.zoho_invoice_id # "" THEN <<AddCustomButton(ViewLabel)>> ELSE <<>>)
        ELSE <<>>)
    \o
    (IF d.zoho_sync_status # ""
        THEN <<AddIndicator(d.zoho_sync_status, color_map(d.zoho_sync_status))>>
        ELSE <<>>)

send_invoice_callback(r) ==
    IF StatusSuccess(r)
        THEN <<ShowAlert(MsgInvoicePushed), ReloadDoc>>
        ELSE IF r.has /\ r.message # ""
            THEN <<MsgPrint(r.message)>>
            ELSE <<>>

----------------------------------------------------------------------------
(* Dispatch *)

\* The refresh handler registered for the doctype.
RefreshOf(f, d) ==
    CASE f = Settings -> ZohoBooksSettings_refresh(d)
      [] f = Customer -> Customer_refresh(d)
      [] f = Item -> Item_refresh(d)
      [] f = SalesInvoice -> SalesInvoice_refresh(d)
      [] OTHER -> <<>>

\* The callback passed to frappe.call for the method.
SyncCallbackOf(m, r, now) ==
    CASE m = sync_customers_from_zoho_to_erpnext -> sync_customers_callback(r, now)
      [] m = sync_items_from_zoho_to_erpnext -> sync_items_callback(r, now)
      [] OTHER -> <<>>

CallbackOf(m, r) ==
    CASE m = get_authorization_url -> get_authorization_url_callback(r)
      [] m = test_connection -> test_connection_callback(r)
      [] m = refresh_access_token -> refresh_access_token_callback(r)
      [] m = push_customer_to_zoho -> push_customer_callback(r)
      [] m = push_item_to_zoho -> push_item_callback(r)
      [] m = send_invoice_to_zoho -> send_invoice_callback(r)
      [] OTHER -> <<>>

\* The method the "Push to Zoho Books" button of the doctype asks about.
PushMethodOf(f) ==
    CASE f = Customer -> push_customer_to_zoho
      [] f = Item -> push_item_to_zoho
      [] OTHER -> send_invoice_to_zoho

\* The URL and the id the "View in Zoho Books" button of the doctype opens.
ViewOf(f, d) ==
    CASE f = Customer -> <<WindowOpen(ContactUrl, d.zoho_contact_id)>>
      [] f = Item -> <<WindowOpen(ItemUrl, d.zoho_item_id)>>
      [] OTHER -> <<WindowOpen(InvoiceUrl, d.zoho_invoice_id)>>

----------------------------------------------------------------------------
(* Applying a handler's calls to the state *)

RECURSIVE Total(_, _)
Total(p, S) ==
    IF S = {} THEN 0
    ELSE LET x == CHOOSE y \in S : TRUE IN p[x] + Total(p, S \ {x})

\* frm.set_value(field, value), in program order
RECURSIVE SetValues(_, _)
SetValues(d, eff) ==
    IF eff = <<>> THEN d
    ELSE LET e == Head(eff)
             d1 == IF e.op = "frm.set_value" THEN [d EXCEPT ![e.arg] = e.val] ELSE d
         IN SetValues(d1, Tail(eff))

\* freeze: true of the push calls blocks the page until the call returns
Frozen == \E m \in PushMethods : pending[m] > 0

\* The user can act on the form: no frozen page, no open confirm dialog
Idle == ~Frozen /\ confirm = "none"

TokenState(d) == d.access_token # ""

\* The labels Settings.refresh has offered so far, per token state
Offer(f, d, labels) ==
    IF f = Settings
        THEN [offered EXCEPT ![TokenState(d)] =
                 [refreshed |-> TRUE, labels |-> @.labels \cup labels]]
        ELSE offered

\* The form f is put on screen with document d, and its refresh handler runs
\* on a toolbar and dashboard the framework has cleared.
Show(f, d) ==
    LET eff == RefreshOf(f, d) IN
    /\ form' = f
    /\ doc' = d
    /\ buttons' = Labels(eff)
    /\ indicators' = Indicators(eff)
    /\ offered' = Offer(f, d, Labels(eff))
    /\ last' = [ev |-> "refresh", form |-> f, method |-> "", resp |-> NoResponse,
                effects |-> eff, refreshed |-> TRUE]
    /\ UNCHANGED <<confirm, pending>>

\* A handler of form f (a click, a field change, a callback) has made the calls
\* eff, starting from document d0; returned is the method whose call it answers.
Run(ev, f, returned, r, eff, d0) ==
    LET issued(x) == Cardinality({i \in Ops(eff, "frappe.call") : eff[i].arg = x})
        p1 == [x \in Methods |->
                 (IF x = returned THEN pending[x] - 1 ELSE pending[x]) + issued(x)]
        d1 == SetValues(d0, eff)
        reload == Ops(eff, "frm.reload_doc") # {}
        save == Ops(eff, "frm.save") # {}
        asked == Args(eff, "frappe.confirm")
    IN
    /\ Total(p1, Methods) <= MaxPending
    /\ pending' = p1
    /\ confirm' = IF asked # {} THEN CHOOSE m \in asked : TRUE ELSE "none"
    /\ form' = form
    /\ IF f # form
         THEN \* the handler's form is not on screen: its document is not tracked
              /\ UNCHANGED <<doc, buttons, indicators, offered>>
              /\ last' = [ev |-> ev, form |-> f, method |-> returned, resp |-> r,
                          effects |-> eff, refreshed |-> FALSE]
         ELSE \E d2 \in (IF reload THEN {d \in DocsOf(f) : ~d.is_new} ELSE {d1}),
                 saved \in (IF save THEN BOOLEAN ELSE {FALSE}) :
                LET refreshed == reload \/ saved
                    again == RefreshOf(f, d2)
                IN
                /\ doc' = d2
                /\ buttons' = IF refreshed THEN Labels(again) ELSE buttons
                /\ indicators' = IF refreshed THEN Indicators(again) ELSE indicators
                /\ offered' = IF refreshed THEN Offer(f, d2, Labels(again)) ELSE offered
                /\ last' = [ev |-> ev, form |-> f, method |-> returned, resp |-> r,
                            effects |-> eff, refreshed |-> refreshed]

----------------------------------------------------------------------------
(* Actions *)

Init ==
    /\ form = Desk
    /\ doc = BlankDoc
    /\ buttons = {}
    /\ indicators = {}
    /\ confirm = "none"
    /\ pending = [m \in Methods |-> 0]
    /\ last = [ev |-> "init", form |-> Desk, method |-> "", resp |-> NoResponse,
               effects |-> <<>>, refreshed |-> FALSE]
    /\ offered = [b \in BOOLEAN |-> [refreshed |-> FALSE, labels |-> {}]]

\* The user opens a document from the desk: the form loads it and fires refresh.
Load(f, d) ==
    /\ Idle
    /\ form = Desk
    /\ Show(f, d)

\* The user leaves the form for the desk; calls in flight stay in flight.
Close ==
    /\ Idle
    /\ form # Desk
    /\ form' = Desk
    /\ doc' = BlankDoc
    /\ buttons' = {}
    /\ indicators' = {}
    /\ last' = [ev |-> "close", form |-> form, method |-> "", resp |-> NoResponse,
                effects |-> <<>>, refreshed |-> FALSE]
    /\ UNCHANGED <<confirm, pending, offered>>

\* The framework fires refresh again on the form on screen.
Refresh ==
    /\ Idle
    /\ form # Desk
    /\ Show(form, doc)

\* The user edits the Redirect URL field (no handler is bound to it).
EditRedirectUrl(v) ==
    /\ Idle
    /\ form = Settings
    /\ v # doc.redirect_url
    /\ doc' = [doc EXCEPT !.redirect_url = v]
    /\ last' = [ev |-> "redirect_url", form |-> Settings, method |-> "", resp |-> NoResponse,
                effects |-> <<>>, refreshed |-> FALSE]
    /\ UNCHANGED <<form, buttons, indicators, confirm, pending, offered>>

\* The user changes the Client ID field: client_id(frm) runs on the new value.
ClientIdChange(v) ==
    /\ Idle
    /\ form = Settings
    /\ v # doc.client_id
    /\ LET d0 == [doc EXCEPT !.client_id = v] IN
       Run("client_id", Settings, "", NoResponse, ZohoBooksSettings_client_id(d0), d0)

ClickSetupOAuth ==
    /\ Idle
    /\ form = Settings
    /\ SetupOAuthLabel \in buttons
    /\ Run("click Setup OAuth", Settings, "", NoResponse, SetupOAuth_click(doc), doc)

ClickTestConnection ==
    /\ Idle
    /\ form = Settings
    /\ TestConnectionLabel \in buttons
    /\ Run("click Test Connection", Settings, "", NoResponse, TestConnection_click(doc), doc)

ClickRefreshToken ==
    /\ Idle
    /\ form = Settings
    /\ RefreshTokenLabel \in buttons
    /\ Run("click Refresh Token", Settings, "", NoResponse, RefreshToken_click(doc), doc)

ClickGetZohoCustomers ==
    /\ Idle
    /\ form = Settings
    /\ GetZohoCustomersLabel \in buttons
    /\ Run("click Get Zoho Customers", Settings, "", NoResponse, GetZohoCustomers_click(doc), doc)

ClickGetZohoItems ==
    /\ Idle
    /\ form = Settings
    /\ GetZohoItemsLabel \in buttons
    /\ Run("click Get Zoho Items", Settings, "", NoResponse, GetZohoItems_click(doc), doc)

\* "Push to Zoho Books" asks for confirmation first.
ClickPush ==
    /\ Idle
    /\ form \in {Customer, Item, SalesInvoice}
    /\ PushLabel \in buttons
    /\ Run("click Push to Zoho Books", form, "", NoResponse, <<Confirm(PushMethodOf(form))>>, doc)

\* The user answers Yes: the confirm callback issues the call.
ConfirmYes ==
    /\ confirm # "none"
    /\ Run("confirm yes", form, "", NoResponse, <<Call(confirm)>>, doc)

\* The user answers No: nothing runs.
ConfirmNo ==
    /\ confirm # "none"
    /\ Run("confirm no", form, "", NoResponse, <<>>, doc)

ClickView ==
    /\ Idle
    /\ form \in {Customer, Item, SalesInvoice}
    /\ ViewLabel \in buttons
    /\ Run("click View in Zoho Books", form, "", NoResponse, ViewOf(form, doc), doc)

\* A remote call returns r and its callback runs.
Return(m, r) ==
    /\ pending[m] > 0
    /\ Run("callback", FormOf(m), m, r, CallbackOf(m, r), doc)

\* A sync call returns r and its callback runs, reading the clock.
ReturnSync(m, r, now) ==
    /\ pending[m] > 0
    /\ Run("callback", FormOf(m), m, r, SyncCallbackOf(m, r, now), doc)

Next ==
    \/ \E f \in Forms : \E d \in DocsOf(f) : Load(f, d)
    \/ Close
    \/ Refresh
    \/ \E v \in RedirectUrls : EditRedirectUrl(v)
    \/ \E v \in ClientIds : ClientIdChange(v)
    \/ ClickSetupOAuth
    \/ ClickTestConnection
    \/ ClickRefreshToken
    \/ ClickGetZohoCustomers
    \/ ClickGetZohoItems
    \/ ClickPush
    \/ ConfirmYes
    \/ ConfirmNo
    \/ ClickView
    \/ \E m \in Methods \ SyncMethods, r \in Responses : Return(m, r)
    \/ \E m \in SyncMethods, r \in Responses, now \in Datetimes : ReturnSync(m, r, now)

Spec == Init /\ [][Next]_vars

----------------------------------------------------------------------------
(* Properties *)

OAuthLabels == {SetupOAuthLabel, TestConnectionLabel, RefreshTokenLabel, RevokeTokenLabel}
ConnectedLabels == {TestConnectionLabel, RefreshTokenLabel,
                    GetZohoCustomersLabel, GetZohoItemsLabel}

Writes(eff) == Ops(eff, "frm.set_value") \cup Ops(eff, "frm.save")

AfterCallback == last.ev = "callback"

\* The response the callback of method m treats as a success.
Succeeded(m, r) ==
    IF m = get_authorization_url
        THEN r.has /\ r.authorization_url # ""
        ELSE StatusSuccess(r)

\* C1: once the Settings form has been refreshed with the tokens absent and
\* with the tokens present, each of "Setup OAuth", "Test Connection",
\* "Refresh Token" and "Revoke Token" has been offered as a button in one of
\* the two token states.  (No handler offers "Revoke Token", so no click of
\* it calls zoho_integration.auth.revoke_token either.)
C1_AllOAuthActionsOffered ==
    (offered[TRUE].refreshed /\ offered[FALSE].refreshed)
        => \A b \in OAuthLabels : b \in offered[TRUE].labels \cup offered[FALSE].labels

\* C2 as stated: a handler writes a field (frm.set_value, frm.save) only as
\* the callback of a remote call that returned a success response.
C2_WritesOnlyAfterSuccess ==
    Writes(last.effects) # {} => AfterCallback /\ StatusSuccess(last.resp)

\* C2 amended: every write of a field is made by the callback of a remote call
\* that returned a success response, except that the client_id field-change
\* handler clears access_token and refresh_token without any remote call.
C2_WritesAfterSuccessOrTokenClear ==
    \A i \in Writes(last.effects) :
        \/ AfterCallback /\ StatusSuccess(last.resp)
        \/ /\ last.ev = "client_id"
           /\ last.effects[i].op = "frm.set_value"
           /\ last.effects[i].arg \in {"access_token", "refresh_token"}
           /\ last.effects[i].val = ""

\* C2 witness: the callback of a successful customer sync has written
\* last_sync_date on the Settings form on screen.
C2_Witness ==
    /\ AfterCallback
    /\ last.method = sync_customers_from_zoho_to_erpnext
    /\ StatusSuccess(last.resp)
    /\ form = Settings
    /\ \E i \in Ops(last.effects, "frm.set_value") :
          /\ last.effects[i].arg = "last_sync_date"
          /\ doc.last_sync_date = last.effects[i].val
          /\ doc.last_sync_date # ""

\* C3 as stated: whenever a remote call has returned, with any response, its
\* callback has shown a message or an alert.
C3_EveryReturnShowsMessage ==
    AfterCallback => Shown(last.effects) # {}

\* C3 amended: when a remote call has returned, its callback has shown a
\* message or an alert exactly when the response is a success (status
\* "success"; for get_authorization_url, a non-empty authorization_url), or
\* when it is the Sales Invoice push and the response carries a message text.
C3_SuccessShowsMessage ==
    AfterCallback =>
        (Shown(last.effects) # {}
            <=> \/ Succeeded(last.method, last.resp)
                \/ /\ last.method = send_invoice_to_zoho
                   /\ last.resp.has
                   /\ last.resp.message # "")

\* C3 witness: test_connection has returned success and "Connection
\* successful!" has been shown.
C3_Witness ==
    /\ AfterCallback
    /\ last.method = test_connection
    /\ StatusSuccess(last.resp)
    /\ Shown(last.effects) = {MsgConnectionOk}

\* C4: a click of "Setup OAuth" with redirect_url empty issues no call, opens
\* no window and shows "Please configure the Redirect URL first"; with
\* redirect_url set it issues exactly one call, to get_authorization_url, and
\* nothing else; and the callback of that call opens the authorization window
\* and then shows the "complete the OAuth authorization" message exactly when
\* the response carries a non-empty authorization_url.
C4_SetupOAuth ==
    /\ last.ev = "click Setup OAuth" =>
          IF doc.redirect_url = ""
              THEN last.effects = <<MsgPrint(MsgRedirectFirst)>>
              ELSE /\ last.effects = <<Call(get_authorization_url)>>
                   /\ pending[get_authorization_url] >= 1
    /\ (AfterCallback /\ last.method = get_authorization_url) =>
          IF last.resp.has /\ last.resp.authorization_url # ""
              THEN last.effects = <<WindowOpen(last.resp.authorization_url, ""),
                                    MsgPrint(MsgCompleteOAuth)>>
              ELSE last.effects = <<>>

\* C4 witness: "Setup OAuth" was clicked with redirect_url set, the call has
\* returned an authorization_url, and the window has been opened.
C4_Witness ==
    /\ AfterCallback
    /\ last.method = get_authorization_url
    /\ form = Settings
    /\ doc.redirect_url # ""
    /\ last.resp.authorization_url = AuthorizationUrl
    /\ Args(last.effects, "window.open") = {AuthorizationUrl}

\* C5: right after a refresh of the Settings form, "Setup OAuth" is among the
\* buttons iff access_token is empty, and each of "Test Connection",
\* "Refresh Token", "Get Zoho Customers" and "Get Zoho Items" is among them
\* iff access_token is not empty.
C5_ButtonsFollowAccessToken ==
    (last.refreshed /\ form = Settings) =>
        /\ SetupOAuthLabel \in buttons <=> doc.access_token = ""
        /\ \A b \in ConnectedLabels : b \in buttons <=> doc.access_token # ""

\* C5 witness: a callback has reloaded the Settings document, the refresh ran
\* with a token present, and the four connected buttons are offered.
C5_Witness ==
    /\ last.refreshed
    /\ AfterCallback
    /\ form = Settings
    /\ doc.access_token # ""
    /\ buttons = ConnectedLabels

\* C6: after every client_id field-change event, whatever the new value, both
\* access_token and refresh_token are empty.
C6_TokensClearedOnClientIdChange ==
    last.ev = "client_id" => doc.access_token = "" /\ doc.refresh_token = ""

=============================================================================
